---- MODULE Spec2Model ----
(***************************************************************************)
(* send2ereader: the code -> file registry of the two server variants,      *)
(* src/index.js (Oak, files on disk) and src/unnamed/part_000 (std router,  *)
(* files in memory).  One behaviour runs one of the two programs; `impl`    *)
(* says which.                                                              *)
(***************************************************************************)
EXTENDS Integers, Sequences, FiniteSets, TLC

VARIABLES
  impl,      \* which of the two programs runs
  now,       \* the clock, in milliseconds
  keys,      \* const keys = new Map(): code -> info object (its identity)
  infos,     \* the info objects still referenced, by identity
  timers,    \* the pending setTimeout callbacks
  disk,      \* index.js: the uploads/ directory, path -> bytes
  files,     \* part_000: const files = new Map(), fileId -> {data, name, type}
  uploads,   \* the upload handlers suspended at an await, by request; target
             \* is the info object its key named when the request arrived
  download,  \* index.js: the download handler suspended at an await
  nextReq,   \* number of the next upload request
  resp,      \* the response sent last
  gen,       \* the last POST /generate call: what it saw and what it answered
  console,   \* index.js: the messages console.error has written
  kg         \* the key generator on its own: configuration, draw and result

vars == <<impl, now, keys, infos, timers, disk, files, uploads, download,
          nextReq, resp, gen, console, kg>>

\* JavaScript's null / undefined, one per type of value it stands in for
undefined == "undefined"
NaN == -1
NoKey == <<>>
NoPath == <<>>
NoId == 0

EmptyMap == [x \in {} |-> 0]
Range(f) == {f[x] : x \in DOMAIN f}
\* f with x removed from its domain (Map.delete, removing a file)
Remove(f, x) == [y \in DOMAIN f \ {x} |-> f[y]]

(***************************************************************************)
(* Configuration                                                            *)
(***************************************************************************)
INDEX == "index.js"
PART0 == "part_000"

\* const maxExpireDuration = 1 * 60 * 60 (seconds); the timers are armed with
\* maxExpireDuration * 1000 milliseconds
maxExpireDuration == 1 * 60 * 60
TimerDelay == maxExpireDuration * 1000

maxFileSize == 1024 * 1024 * 800

TYPE_EPUB == "application/epub+zip"
TYPE_MOBI == "application/x-mobipocket-ebook"

allowedTypes ==
  {TYPE_EPUB, TYPE_MOBI, "application/pdf", "application/vnd.comicbook+zip",
   "application/vnd.comicbook-rar", "text/html", "text/plain",
   "application/zip", "application/x-rar-compressed"}

allowedExtensions == {"epub", "mobi", "pdf", "cbz", "cbr", "html", "txt"}

\* const keyChars = "23456789ACDEFGHJKLMNPRSTUVWXYZ", one character per element
keyChars ==
  <<"2", "3", "4", "5", "6", "7", "8", "9", "A", "C", "D", "E", "F", "G", "H",
    "J", "K", "L", "M", "N", "P", "R", "S", "T", "U", "V", "W", "X", "Y", "Z">>

keyLength == 4

(***************************************************************************)
(* Bounds of the model                                                      *)
(***************************************************************************)
\* the registry runs with the first ModelAlphabet characters of keyChars and
\* codes of ModelLength characters (2 symbols x 1 character: 2 codes)
ModelAlphabet == 2
ModelLength == 1
\* the key generator harness tries alphabets of 2..MaxAlphabet characters and
\* lengths 1..MaxLength
MaxAlphabet == 4
MaxLength == 3
\* the clock advances in steps of TimerDelay / TicksPerTTL, MaxTicks times
TicksPerTTL == 1
MaxTicks == 2
\* number of POST /generate requests, of POST /upload requests, and of both
MaxGenerate == 3
MaxUploads == 3
MaxRequests == 4

TickMs == TimerDelay \div TicksPerTTL
MaxTime == MaxTicks * TickMs

Chars == SubSeq(keyChars, 1, ModelAlphabet)

(***************************************************************************)
(* Key generator: randomKey                                                 *)
(***************************************************************************)
RECURSIVE Pow(_, _)
Pow(b, e) == IF e = 0 THEN 1 ELSE b * Pow(b, e - 1)

\* the digit characters of Number.prototype.toString(radix), radix 2..36
Digits ==
  <<"0", "1", "2", "3", "4", "5", "6", "7", "8", "9", "a", "b", "c", "d", "e",
    "f", "g", "h", "i", "j", "k", "l", "m", "n", "o", "p", "q", "r", "s", "t",
    "u", "v", "w", "x", "y", "z">>

\* rnd.toString(radix): the digits of rnd in base radix, most significant first
RECURSIVE NumToString(_, _)
NumToString(n, radix) ==
  IF n < radix THEN <<Digits[n + 1]>>
  ELSE Append(NumToString(n \div radix, radix), Digits[(n % radix) + 1])

\* s.padStart(len, c)
PadStartNone(s, len, c) == s
PadStart(s, len, c) ==
  IF Len(s) >= len THEN s ELSE [i \in 1..(len - Len(s)) |-> c] \o s

\* parseInt(chr, radix) of one character: its digit value, NaN when it is no
\* digit of that radix
ParseInt(chr, radix) ==
  IF \E d \in 1..radix : Digits[d] = chr
    THEN (CHOOSE d \in 1..radix : Digits[d] = chr) - 1
    ELSE NaN

\* chars[i] of a JavaScript string: undefined outside 0..length-1
CharAt(chars, i) ==
  IF i \in 0..(Len(chars) - 1) THEN chars[i + 1] ELSE undefined

\* array.join(''): undefined elements contribute nothing
Join(arr) == SelectSeq(arr, LAMBDA c : c # undefined)

\* Math.pow(keyChars.length, keyLength)
ChoicesLinear(chars, len) == Len(chars) * len
Choices(chars, len) == Pow(Len(chars), len)

\* randomKey() with Math.floor(Math.random() * choices) = rnd
randomKey(chars, len, rnd) ==
  LET str == PadStart(NumToString(rnd, Len(chars)), len, "0")
  IN  Join([i \in 1..Len(str) |-> CharAt(chars, ParseInt(str[i], Len(chars)))])

\* every code randomKey can return under the registry's configuration
KeySpace == {randomKey(Chars, ModelLength, r) : r \in 0..(Choices(Chars, ModelLength) - 1)}

(***************************************************************************)
(* Requests and responses                                                   *)
(***************************************************************************)
\* an uploaded file: its name split at the dots, the media type the client
\* declares, its bytes and their number
File(name, type, data, size) == [name |-> name, type |-> type, data |-> data, size |-> size]
NoUpload == File(<<>>, "", "", 0)

UploadFiles ==
  {File(<<"book", "epub">>, TYPE_EPUB, "epub bytes", 10),
   File(<<"comic", "cbz">>, "application/zip", "cbz bytes", 10),
   File(<<"book", "exe">>, TYPE_EPUB, "exe bytes", 10),
   File(<<"cover", "epub">>, "image/png", "png bytes", maxFileSize + 1)}

\* the codes a client sends: every code of the key space and one that is none
RequestKeys == KeySpace \cup {<<"z">>}

UploadRequests ==
  [body : {"form-data"}, key : RequestKeys, file : UploadFiles \cup {NoUpload}]
    \cup [body : {"none"}, key : {NoKey}, file : {NoUpload}]

Lowers ==
  <<"a", "b", "c", "d", "e", "f", "g", "h", "i", "j", "k", "l", "m", "n", "o",
    "p", "q", "r", "s", "t", "u", "v", "w", "x", "y", "z">>
Uppers ==
  <<"A", "B", "C", "D", "E", "F", "G", "H", "I", "J", "K", "L", "M", "N", "O",
    "P", "Q", "R", "S", "T", "U", "V", "W", "X", "Y", "Z">>

\* key.toUpperCase(), character by character
ToUpperCase(s) ==
  [i \in 1..Len(s) |->
     IF \E j \in 1..26 : Lowers[j] = s[i]
       THEN Uppers[CHOOSE j \in 1..26 : Lowers[j] = s[i]]
       ELSE s[i]]

\* ext.toLowerCase() of the extensions that occur
ToLowerCase(ext) ==
  CASE ext = "EPUB" -> "epub"
    [] ext = "PDF" -> "pdf"
    [] OTHER -> ext

\* extname(name).slice(1): the part after the last dot, "" when there is no
\* dot or the only dot leads the name
ExtName(name) ==
  IF Len(name) >= 2 /\ ~(Len(name) = 2 /\ name[1] = "") THEN name[Len(name)] ELSE ""

\* name.split('.').pop()
LastPart(name) == IF Len(name) = 0 THEN "" ELSE name[Len(name)]

\* contentType(ext) of deno std/media_types, for the extensions allowed
contentType(ext) ==
  CASE ext = "epub" -> "application/epub+zip"
    [] ext = "mobi" -> "application/x-mobipocket-ebook"
    [] ext = "pdf" -> "application/pdf"
    [] ext = "cbz" -> "application/vnd.comicbook+zip"
    [] ext = "cbr" -> "application/vnd.comicbook-rar"
    [] ext = "html" -> "text/html; charset=UTF-8"
    [] ext = "txt" -> "text/plain; charset=UTF-8"
    [] OTHER -> undefined

NoResp == [op |-> "none"]
UploadOk ==
  [op |-> "upload", status |-> 200, success |-> TRUE, message |-> "File uploaded successfully"]
UploadError(message) ==
  [op |-> "upload", status |-> 400, success |-> FALSE, message |-> message]
DownloadOk(key, type, filename, data) ==
  [op |-> "download", key |-> key, status |-> 200, type |-> type, filename |-> filename, data |-> data]
DownloadError(key, status, text) ==
  [op |-> "download", key |-> key, status |-> status, type |-> "", filename |-> <<>>, data |-> text]

\* index.js: info.file = {filename, path, type}, null until the first upload
NoFile == [filename |-> <<>>, path |-> NoPath, type |-> ""]

Idle == [pc |-> "idle", key |-> NoKey, path |-> NoPath, info |-> NoId, data |-> ""]

\* the info objects something still refers to: the map, a suspended upload,
\* the suspended download
Collect(infs, ks, ups, dl) ==
  [i \in DOMAIN infs \cap (Range(ks) \cup {ups[u].info : u \in DOMAIN ups} \cup {dl.info}) |-> infs[i]]

(***************************************************************************)
(* POST /generate                                                           *)
(***************************************************************************)
\* keys.has(key), the condition of the do-while
KeyTakenNever(live, key) == FALSE
KeyTakenAlways(live, key) == TRUE
KeyTaken(live, key) == key \in live

\* attempts > keys.size
BudgetOff(attempts, size) == attempts >= size
BudgetExceeded(attempts, size) == attempts > size

\* the do ... while loop: draws[attempts + 1] is the random number of the
\* iteration; `tested` lists the keys the while condition looked up
RECURSIVE KeyLoop(_, _, _)
KeyLoop(live, draws, attempts) ==
  LET key == randomKey(Chars, ModelLength, draws[attempts + 1])
  IN  IF BudgetExceeded(attempts, Cardinality(live))
        THEN [status |-> 503, key |-> NoKey, tested |-> <<>>]
      ELSE IF KeyTaken(live, key)
        THEN LET r == KeyLoop(live, draws, attempts + 1)
             IN  [r EXCEPT !.tested = <<key>> \o @]
      ELSE [status |-> 200, key |-> key, tested |-> <<key>>]

\* const info = {created, agent, file: null / fileId: null, urls, timer}
NewInfo ==
  IF impl = INDEX THEN [created |-> now, file |-> NoFile]
  ELSE [created |-> now, fileId |-> NoId]

\* keys.set(key, info)
SetKey(ks, key, id) == (key :> id) @@ ks

\* setTimeout(callback, maxExpireDuration * 1000)
SetTimeoutSeconds(key, id) == [key |-> key, info |-> id, due |-> now + maxExpireDuration]
SetTimeout(key, id) == [key |-> key, info |-> id, due |-> now + TimerDelay]

\* the requests made so far that the bounds count
Requests == gen.n + (nextReq - 1)

Generate ==
  /\ gen.n < MaxGenerate
  /\ Requests < MaxRequests
  /\ now + TimerDelay <= MaxTime
  /\ \E draws \in [1..(Cardinality(DOMAIN keys) + 2) -> 0..(Choices(Chars, ModelLength) - 1)] :
       LET r == KeyLoop(DOMAIN keys, draws, 0)
           id == gen.n + 1
       IN  /\ gen' = [n |-> gen.n + 1, live |-> DOMAIN keys, tested |-> r.tested,
                      status |-> r.status, key |-> r.key]
           /\ IF r.status = 200
                THEN /\ keys' = SetKey(keys, r.key, id)
                     /\ infos' = (id :> NewInfo) @@ infos
                     /\ timers' = timers \cup {SetTimeout(r.key, id)}
                     /\ resp' = [op |-> "generate", status |-> 200, body |-> r.key]
                ELSE /\ UNCHANGED <<keys, infos, timers>>
                     /\ resp' = [op |-> "generate", status |-> 503, body |-> NoKey]
  /\ UNCHANGED <<impl, now, disk, files, uploads, download, nextReq, kg, console>>

(***************************************************************************)
(* The clock and the expiration callbacks                                   *)
(***************************************************************************)
Tick ==
  /\ now + TickMs <= MaxTime
  /\ now' = now + TickMs
  /\ UNCHANGED <<impl, keys, infos, timers, disk, files, uploads, download, nextReq, resp, gen, kg, console>>

\* the two messages of console.error
ErrRemovingFile == "Error removing file:"
ErrRemovingPrevious == "Error removing previous file:"

\* index.js: if (keys.get(key) === info) { keys.delete(key); if (info.file?.path)
\* try { Deno.removeSync(info.file.path) } catch (err) { console.error(...) } }
\* Deno.removeSync throws NotFound when the path is gone
ExpireIndexKeepsFile(t) ==
  /\ impl = INDEX
  /\ IF t.key \in DOMAIN keys /\ keys[t.key] = t.info
       THEN keys' = Remove(keys, t.key)
       ELSE UNCHANGED keys
  /\ UNCHANGED <<disk, files, console>>
ExpireIndexThrows(t) ==
  /\ impl = INDEX
  /\ IF t.key \in DOMAIN keys /\ keys[t.key] = t.info
       THEN IF infos[t.info].file.path = NoPath
              THEN /\ keys' = Remove(keys, t.key)
                   /\ UNCHANGED <<disk, console>>
            ELSE IF infos[t.info].file.path \in DOMAIN disk
              THEN /\ keys' = Remove(keys, t.key)
                   /\ disk' = Remove(disk, infos[t.info].file.path)
                   /\ UNCHANGED console
            ELSE UNCHANGED <<keys, disk, console>>
       ELSE UNCHANGED <<keys, disk, console>>
  /\ UNCHANGED files
ExpireIndex(t) ==
  /\ impl = INDEX
  /\ IF t.key \in DOMAIN keys /\ keys[t.key] = t.info
       THEN /\ keys' = Remove(keys, t.key)
            /\ IF infos[t.info].file.path = NoPath
                 THEN UNCHANGED <<disk, console>>
               ELSE IF infos[t.info].file.path \in DOMAIN disk
                 THEN /\ disk' = Remove(disk, infos[t.info].file.path)
                      /\ UNCHANGED console
               ELSE /\ console' = console \cup {ErrRemovingFile}
                    /\ UNCHANGED disk
       ELSE UNCHANGED <<keys, disk, console>>
  /\ UNCHANGED files

\* part_000: if (keys.has(key)) { info = keys.get(key); files.delete(info.fileId); keys.delete(key) }
ExpirePart0(t) ==
  /\ impl = PART0
  /\ IF t.key \in DOMAIN keys
       THEN /\ LET info == infos[keys[t.key]]
               IN  IF info.fileId # NoId /\ info.fileId \in DOMAIN files
                     THEN files' = Remove(files, info.fileId)
                     ELSE UNCHANGED files
            /\ keys' = Remove(keys, t.key)
       ELSE UNCHANGED <<keys, files>>
  /\ UNCHANGED <<disk, console>>

Expire ==
  \E t \in timers :
    /\ now >= t.due
    /\ timers' = timers \ {t}
    /\ (ExpireIndex(t) \/ ExpirePart0(t))
    /\ infos' = Collect(infos, keys', uploads, download)
    /\ UNCHANGED <<impl, now, uploads, download, nextReq, resp, gen, kg>>

(***************************************************************************)
(* index.js: POST /upload                                                   *)
(***************************************************************************)
\* handleUpload up to the point where it saves the file: the message it throws,
\* "" when it throws nothing
IndexValidate(req) ==
  IF req.body # "form-data" THEN "Expected multipart form data"
  ELSE IF req.file = NoUpload THEN "No file uploaded"
  ELSE IF ToLowerCase(ExtName(req.file.name)) \notin allowedExtensions THEN "Invalid file type"
  ELSE ""

\* join("uploads", `${crypto.randomUUID()}-${file.filename}`); the UUID is a
\* value no other request draws
UploadPath(uuid, name) == <<uuid, name>>

\* what handleUpload returns: {filename, path, type}
IndexFile(u) ==
  [filename |-> u.file.name, path |-> UploadPath(u.id, u.file.name), type |-> u.file.type]

\* keys.get(key) of the key a request carries, when the request arrives
Target(key) == IF ToUpperCase(key) \in DOMAIN keys THEN keys[ToUpperCase(key)] ELSE NoId

\* the request arrives; handleUpload reads the body, validates and starts to
\* save the file
IndexUploadBegin(req) ==
  /\ impl = INDEX
  /\ nextReq <= MaxUploads
  /\ Requests < MaxRequests
  /\ nextReq' = nextReq + 1
  /\ IF IndexValidate(req) # ""
       THEN /\ resp' = UploadError(IndexValidate(req))
            /\ UNCHANGED uploads
       ELSE /\ uploads' = (nextReq :> [pc |-> "saving", key |-> req.key, file |-> req.file,
                                       id |-> nextReq, info |-> NoId, old |-> NoPath,
                                       target |-> Target(req.key)]) @@ uploads
            /\ UNCHANGED resp
  /\ UNCHANGED <<now, keys, infos, timers, disk, files, download, gen, kg, impl, console>>

\* !key || !keys.has(key)
InvalidKey(key) == key = NoKey \/ key \notin DOMAIN keys

\* the file is saved and handleUpload returns; the handler checks the key and
\* either binds the file or first removes the previous one
IndexUploadSaved(u) ==
  /\ impl = INDEX
  /\ u \in DOMAIN uploads
  /\ uploads[u].pc = "saving"
  /\ disk' = (IndexFile(uploads[u]).path :> uploads[u].file.data) @@ disk
  /\ LET key == ToUpperCase(uploads[u].key)
     IN  IF InvalidKey(key)
           THEN /\ resp' = UploadError("Invalid key")
                /\ uploads' = Remove(uploads, u)
                /\ UNCHANGED infos
         ELSE IF infos[keys[key]].file.path # NoPath
           THEN /\ uploads' = [uploads EXCEPT ![u].pc = "removing", ![u].info = keys[key],
                                              ![u].old = infos[keys[key]].file.path]
                /\ UNCHANGED <<resp, infos>>
         ELSE /\ infos' = [infos EXCEPT ![keys[key]].file = IndexFile(uploads[u])]
              /\ resp' = UploadOk
              /\ uploads' = Remove(uploads, u)
  /\ UNCHANGED <<impl, now, keys, timers, files, download, nextReq, gen, kg, console>>

\* await Deno.remove(info.file.path) runs; it throws NotFound when the path is
\* gone, and the catch writes the error to the console
IndexRemoveThrows(u) ==
  /\ impl = INDEX
  /\ u \in DOMAIN uploads
  /\ uploads[u].pc = "removing"
  /\ IF uploads[u].old \in DOMAIN disk
       THEN /\ disk' = Remove(disk, uploads[u].old)
            /\ uploads' = [uploads EXCEPT ![u].pc = "removed"]
            /\ UNCHANGED <<resp, infos>>
       ELSE /\ uploads' = Remove(uploads, u)
            /\ resp' = UploadError("NotFound")
            /\ infos' = Collect(infos, keys, uploads', download)
            /\ UNCHANGED disk
  /\ UNCHANGED <<impl, now, keys, timers, files, download, nextReq, gen, console, kg>>
IndexRemove(u) ==
  /\ impl = INDEX
  /\ u \in DOMAIN uploads
  /\ uploads[u].pc = "removing"
  /\ IF uploads[u].old \in DOMAIN disk
       THEN /\ disk' = Remove(disk, uploads[u].old)
            /\ UNCHANGED console
       ELSE /\ console' = console \cup {ErrRemovingPrevious}
            /\ UNCHANGED disk
  /\ uploads' = [uploads EXCEPT ![u].pc = "removed"]
  /\ UNCHANGED <<impl, now, keys, infos, timers, files, download, nextReq, resp, gen, kg>>

\* after the await (an error is caught and logged): info.file = file
IndexUploadAssign(u) ==
  /\ impl = INDEX
  /\ u \in DOMAIN uploads
  /\ uploads[u].pc = "removed"
  /\ uploads' = Remove(uploads, u)
  /\ infos' = Collect([infos EXCEPT ![uploads[u].info].file = IndexFile(uploads[u])],
                      keys, uploads', download)
  /\ resp' = UploadOk
  /\ UNCHANGED <<impl, now, keys, timers, disk, files, download, nextReq, gen, kg, console>>

(***************************************************************************)
(* index.js: GET /:filename                                                 *)
(***************************************************************************)
\* !key || !keys.has(key), then !info.file
IndexNotFound(key) == InvalidKey(key) \/ infos[keys[key]].file = NoFile

\* the headers, Content-Type from contentType(extname(filePath)) and the
\* filename from info.file, and the bytes
IndexResponse(key, path, info, data) ==
  DownloadOk(key, contentType(ExtName(path[2])), infos[info].file.filename, data)

IndexDownloadBegin(key) ==
  /\ impl = INDEX
  /\ download.pc = "idle"
  /\ IF IndexNotFound(key)
       THEN /\ resp' = DownloadError(key, 404, "Not Found")
            /\ UNCHANGED download
       ELSE /\ download' = [pc |-> "opening", key |-> key, path |-> infos[keys[key]].file.path,
                            info |-> keys[key], data |-> ""]
            /\ UNCHANGED resp
  /\ UNCHANGED <<impl, now, keys, infos, timers, disk, files, uploads, nextReq, gen, kg, console>>

\* Deno.open(filePath) runs; it fails with NotFound when the path is gone and
\* the handler ends with the error
IndexDownloadOpen ==
  /\ impl = INDEX
  /\ download.pc = "opening"
  /\ IF download.path \in DOMAIN disk
       THEN /\ download' = [download EXCEPT !.pc = "sending", !.data = disk[download.path]]
            /\ UNCHANGED <<resp, infos>>
       ELSE /\ download' = Idle
            /\ resp' = DownloadError(download.key, 500, "Internal Server Error")
            /\ infos' = Collect(infos, keys, uploads, Idle)
  /\ UNCHANGED <<impl, now, keys, timers, disk, files, uploads, nextReq, gen, kg, console>>

\* after the await: the headers, from filePath and from info.file as it is
\* now, and the bytes of the opened file
IndexDownloadSend ==
  /\ impl = INDEX
  /\ download.pc = "sending"
  /\ resp' = IndexResponse(download.key, download.path, download.info, download.data)
  /\ download' = Idle
  /\ infos' = Collect(infos, keys, uploads, Idle)
  /\ UNCHANGED <<impl, now, keys, timers, disk, files, uploads, nextReq, gen, kg, console>>

(***************************************************************************)
(* part_000: POST /api/upload and GET /api/download/:key                    *)
(***************************************************************************)
\* the checks before the file is read, in the handler's order: the message
\* thrown, "" when nothing is thrown
Part0Validate(req) ==
  IF req.body = "none" THEN "No body provided"
  ELSE IF InvalidKey(ToUpperCase(req.key)) THEN "Invalid key"
  ELSE IF req.file = NoUpload THEN "No file uploaded"
  ELSE IF ToLowerCase(LastPart(req.file.name)) \notin allowedExtensions THEN "Invalid file type"
  ELSE ""

\* the request arrives: a request without a body is refused, any other waits
\* for await request.formData()
Part0UploadBegin(req) ==
  /\ impl = PART0
  /\ nextReq <= MaxUploads
  /\ Requests < MaxRequests
  /\ nextReq' = nextReq + 1
  /\ IF req.body = "none"
       THEN /\ resp' = UploadError(Part0Validate(req))
            /\ UNCHANGED uploads
       ELSE /\ uploads' = (nextReq :> [pc |-> "reading", key |-> req.key, file |-> req.file,
                                       id |-> nextReq, info |-> NoId, old |-> NoPath,
                                       target |-> Target(req.key)]) @@ uploads
            /\ UNCHANGED resp
  /\ UNCHANGED <<impl, now, keys, infos, timers, disk, files, download, gen, kg, console>>

\* after await request.formData(): the key, the file and its extension are
\* checked, info = keys.get(key), and the handler waits for file.arrayBuffer()
Part0UploadRead(u) ==
  /\ impl = PART0
  /\ u \in DOMAIN uploads
  /\ uploads[u].pc = "reading"
  /\ LET req == [body |-> "form-data", key |-> uploads[u].key, file |-> uploads[u].file]
     IN  IF Part0Validate(req) # ""
           THEN /\ resp' = UploadError(Part0Validate(req))
                /\ uploads' = Remove(uploads, u)
           ELSE /\ uploads' = [uploads EXCEPT ![u].pc = "buffering",
                                              ![u].info = keys[ToUpperCase(req.key)]]
                /\ UNCHANGED resp
  /\ UNCHANGED <<impl, now, keys, infos, timers, disk, files, download, nextReq, gen, kg, console>>

\* after await file.arrayBuffer(): files.set(fileId, ...); info.fileId = fileId
Part0UploadStore(u) ==
  /\ impl = PART0
  /\ u \in DOMAIN uploads
  /\ uploads[u].pc = "buffering"
  /\ files' = (uploads[u].id :> [data |-> uploads[u].file.data, name |-> uploads[u].file.name,
                                 type |-> uploads[u].file.type]) @@ files
  /\ uploads' = Remove(uploads, u)
  /\ infos' = Collect([infos EXCEPT ![uploads[u].info].fileId = uploads[u].id],
                      keys, uploads', download)
  /\ resp' = UploadOk
  /\ UNCHANGED <<impl, now, keys, timers, disk, download, nextReq, gen, kg, console>>

Part0ResolveTells(key) ==
  IF InvalidKey(key) THEN DownloadError(key, 404, "File not found")
  ELSE IF infos[keys[key]].fileId = NoId \/ infos[keys[key]].fileId \notin DOMAIN files
    THEN DownloadError(key, 404, "No file uploaded")
  ELSE LET file == files[infos[keys[key]].fileId]
       IN  DownloadOk(key, file.type, file.name, file.data)

Part0Resolve(key) ==
  IF InvalidKey(key) THEN DownloadError(key, 404, "File not found")
  ELSE IF infos[keys[key]].fileId = NoId \/ infos[keys[key]].fileId \notin DOMAIN files
    THEN DownloadError(key, 404, "File not found")
  ELSE LET file == files[infos[keys[key]].fileId]
       IN  DownloadOk(key, file.type, file.name, file.data)

Part0DownloadOnce(key) ==
  /\ impl = PART0
  /\ resp' = Part0Resolve(key)
  /\ files' = IF Part0Resolve(key).status = 200
                THEN Remove(files, infos[keys[key]].fileId) ELSE files
  /\ UNCHANGED <<impl, now, keys, infos, timers, disk, uploads, download, nextReq, gen, kg, console>>
Part0Download(key) ==
  /\ impl = PART0
  /\ resp' = Part0Resolve(key)
  /\ UNCHANGED <<impl, now, keys, infos, timers, disk, files, uploads, download, nextReq, gen, kg, console>>

(***************************************************************************)
(* The key generator on its own                                             *)
(***************************************************************************)
NoKg == [chars |-> <<>>, len |-> 0, rnd |-> 0, out |-> <<"none">>]

\* the draws tried with the configuration of the source: the first ones, the
\* first to need a second digit and the last
RefDraws == {0, 1, Len(keyChars) - 1, Len(keyChars), Choices(keyChars, keyLength) - 1}

\* a configuration and the number Math.floor(Math.random() * choices) draws
KeyConfigs ==
  UNION {{[chars |-> SubSeq(keyChars, 1, a), len |-> l, rnd |-> r, out |-> <<"none">>] :
            r \in 0..(Pow(a, l) - 1)} : a \in 2..MaxAlphabet, l \in 1..MaxLength}
    \cup {[chars |-> keyChars, len |-> keyLength, rnd |-> r, out |-> <<"none">>] : r \in RefDraws}

KeyDraw ==
  /\ kg.out = <<"none">>
  /\ kg.len > 0
  /\ kg' = [kg EXCEPT !.out = randomKey(kg.chars, kg.len, kg.rnd)]
  /\ UNCHANGED <<impl, now, keys, infos, timers, disk, files, uploads, download, nextReq, resp, gen, console>>

(***************************************************************************)
(* Specifications                                                           *)
(***************************************************************************)
InitServer ==
  /\ impl \in {INDEX, PART0}
  /\ now = 0
  /\ keys = EmptyMap
  /\ infos = EmptyMap
  /\ timers = {}
  /\ disk = EmptyMap
  /\ files = EmptyMap
  /\ uploads = EmptyMap
  /\ download = Idle
  /\ nextReq = 1
  /\ resp = NoResp
  /\ gen = [n |-> 0, live |-> {}, tested |-> <<>>, status |-> 0, key |-> NoKey]
  /\ console = {}

Init == InitServer /\ kg = NoKg

Next ==
  \/ Generate
  \/ Tick
  \/ Expire
  \/ \E req \in UploadRequests : IndexUploadBegin(req)
  \/ \E u \in 1..MaxUploads : IndexUploadSaved(u)
  \/ \E u \in 1..MaxUploads : IndexRemove(u)
  \/ \E u \in 1..MaxUploads : IndexUploadAssign(u)
  \/ \E key \in RequestKeys : IndexDownloadBegin(key)
  \/ IndexDownloadOpen
  \/ IndexDownloadSend
  \/ \E req \in UploadRequests : Part0UploadBegin(req)
  \/ \E u \in 1..MaxUploads : Part0UploadRead(u)
  \/ \E u \in 1..MaxUploads : Part0UploadStore(u)
  \/ \E key \in RequestKeys : Part0Download(key)

Spec == Init /\ [][Next]_vars

InitKey == InitServer /\ kg \in KeyConfigs

NextKey == KeyDraw

SpecKey == InitKey /\ [][NextKey]_vars


\* the scheduler runs: the clock advances and a due callback is called.  The
\* clients upload one file, to any code
FairRequests == {req \in UploadRequests : req.file.name = <<"book", "epub">>}

NextFair ==
  \/ Generate
  \/ Tick
  \/ Expire
  \/ \E req \in FairRequests : IndexUploadBegin(req)
  \/ \E u \in 1..MaxUploads : IndexUploadSaved(u)
  \/ \E u \in 1..MaxUploads : IndexRemove(u)
  \/ \E u \in 1..MaxUploads : IndexUploadAssign(u)
  \/ \E key \in RequestKeys : IndexDownloadBegin(key)
  \/ IndexDownloadOpen
  \/ IndexDownloadSend
  \/ \E req \in FairRequests : Part0UploadBegin(req)
  \/ \E u \in 1..MaxUploads : Part0UploadRead(u)
  \/ \E u \in 1..MaxUploads : Part0UploadStore(u)
  \/ \E key \in RequestKeys : Part0Download(key)

FairSpec == Init /\ [][NextFair]_vars /\ WF_vars(Tick) /\ WF_vars(Expire)

(***************************************************************************)
(* Properties                                                               *)
(***************************************************************************)
\* C1: uniqueness. Every session whose expiration callback is still pending
\* is the one session stored under its code (no allocate has replaced it, no
\* two pending sessions share a code), the live codes are exactly those of
\* the pending sessions, and the code POST /generate returns was not live
\* when the call was made.
C1_Uniqueness ==
  /\ \A t \in timers : t.key \in DOMAIN keys /\ keys[t.key] = t.info
  /\ \A t1, t2 \in timers : t1.key = t2.key => t1 = t2
  /\ DOMAIN keys = {t.key : t \in timers}
  /\ gen.status = 200 => gen.key \in KeySpace \ gen.live

\* two sessions live, the later allocated after a collision with the earlier
C1_Witness ==
  /\ gen.status = 200
  /\ Len(gen.tested) >= 2
  /\ Cardinality(DOMAIN keys) = 2
  /\ uploads # EmptyMap

\* a download that runs without another handler in between
ResolveNow(key) ==
  IF impl = PART0 THEN Part0Resolve(key)
  ELSE IF IndexNotFound(key) THEN DownloadError(key, 404, "Not Found")
  ELSE IF infos[keys[key]].file.path \notin DOMAIN disk
    THEN DownloadError(key, 500, "Internal Server Error")
  ELSE IndexResponse(key, infos[keys[key]].file.path, keys[key],
                     disk[infos[keys[key]].file.path])

\* the upload handler of request u ends in this step
Completes(u) == u \in DOMAIN uploads /\ u \notin DOMAIN uploads'
\* the code it binds to and the session it binds to
Codes == {ToUpperCase(key) : key \in RequestKeys}
CodeOf(u) == ToUpperCase(uploads[u].key)
SessionOf(u) ==
  IF uploads[u].info # NoId THEN uploads[u].info
  ELSE IF CodeOf(u) \in DOMAIN keys THEN keys[CodeOf(u)]
  ELSE NoId
\* the session it binds to is live when the handler ends
BindsLive(u) ==
  /\ SessionOf(u) # NoId
  /\ CodeOf(u) \in DOMAIN keys'
  /\ keys'[CodeOf(u)] = SessionOf(u)
\* the request carries a file with an allowed extension
ValidFile(u) ==
  /\ uploads[u].file # NoUpload
  /\ ToLowerCase(LastPart(uploads[u].file.name)) \in allowedExtensions
\* what a download must return for the file of request u
Uploaded(u) ==
  DownloadOk(CodeOf(u), uploads[u].file.type, uploads[u].file.name, uploads[u].file.data)

\* C2: an upload to a live code succeeds, and a download right after it
\* returns the uploaded bytes, the original filename and the media type
\* declared at upload time.
C2_BindThenResolve ==
  [][\A u \in 1..MaxUploads, code \in Codes :
       (Completes(u) /\ code = CodeOf(u) /\ BindsLive(u) /\ ValidFile(u)) =>
          /\ resp' = UploadOk
          /\ ResolveNow(code)' = Uploaded(u)]_vars

\* the blob the session of request u references before the handler ends
OldBlob(u) ==
  IF impl = INDEX THEN infos[SessionOf(u)].file.path ELSE infos[SessionOf(u)].fileId
HasOldBlob(u) ==
  IF impl = INDEX THEN OldBlob(u) # NoPath ELSE OldBlob(u) # NoId
Blobs == IF impl = INDEX THEN DOMAIN disk ELSE DOMAIN files
Stored(blob) == blob \in Blobs

\* C3: replace semantics. When an upload to a live code that already has a
\* file succeeds, a download returns the new file only and the blob of the
\* earlier upload is gone from the blob store.
C3_Replace ==
  [][\A u \in 1..MaxUploads, code \in Codes :
       (Completes(u) /\ code = CodeOf(u) /\ BindsLive(u) /\ HasOldBlob(u) /\ resp' = UploadOk) =>
          /\ ResolveNow(code)'.status = 200
          /\ ResolveNow(code)'.filename = uploads[u].file.name
          /\ ResolveNow(code)'.data = uploads[u].file.data
          /\ \A blob \in Blobs : blob = OldBlob(u) => ~Stored(blob)']_vars

\* the code is live and no file was ever bound to it
Unbound(key) ==
  /\ key \in DOMAIN keys
  /\ IF impl = INDEX THEN infos[keys[key]].file = NoFile
     ELSE infos[keys[key]].fileId = NoId

NotFoundBody == IF impl = INDEX THEN "Not Found" ELSE "File not found"

\* C4: a download request for a code that is not in the live map (never
\* allocated, or expired) or that is live with no file bound is answered with
\* one and the same 404 response.
C4_NotFound ==
  [][(/\ download.pc = "idle"
      /\ resp' # resp
      /\ resp'.op = "download"
      /\ (resp'.key \notin DOMAIN keys \/ Unbound(resp'.key)))
     => resp' = DownloadError(resp'.key, 404, NotFoundBody)]_vars

\* a 404 for a code that was live at the last allocate and has expired, while
\* another code is live without a file
C4_Witness ==
  /\ resp.op = "download"
  /\ resp.status = 404
  /\ resp.key \in gen.live
  /\ resp.key \notin DOMAIN keys
  /\ \E key \in DOMAIN keys : Unbound(key)

\* the expiration callback t runs in this step
Fires(t) == t \in timers /\ t \notin timers'

\* C5: TTL eviction. A callback runs only once the clock has reached
\* created + TTL of its session; when it has run, the session is out of the
\* live map and the blob it had bound is out of the blob store; and every
\* session in the live map is eventually out of it.
C5_Eviction ==
  /\ [][\A t \in timers :
          Fires(t) =>
            /\ t.key \in DOMAIN keys
            /\ keys[t.key] = t.info
            /\ t.due = infos[t.info].created + maxExpireDuration * 1000
            /\ now >= t.due
            /\ t.key \notin DOMAIN keys'
            /\ t.info \notin Range(keys')
            /\ IF impl = INDEX
                 THEN infos[t.info].file.path \notin DOMAIN disk'
                 ELSE infos[t.info].fileId \notin DOMAIN files']_vars
  /\ \A id \in 1..MaxGenerate : (id \in Range(keys)) ~> (id \notin Range(keys))

\* a session that had a file bound has been evicted with its blob
C5_Witness ==
  /\ gen.status = 200
  /\ keys = EmptyMap
  /\ timers = {}
  /\ resp = UploadOk
  /\ disk = EmptyMap
  /\ files = EmptyMap
  /\ now >= TimerDelay

\* C6 as claimed: over a key space of 2 codes with no session expiring, the
\* first two allocate calls return two distinct codes and the third fails
\* with CapacityExhausted.
C6_AsClaimed ==
  (now < TimerDelay /\ Cardinality(KeySpace) = 2) =>
     /\ gen.n \in {1, 2} => (gen.status = 200 /\ gen.key \notin gen.live)
     /\ gen.n = 3 => (gen.status = 503 /\ gen.live = KeySpace)

\* C6: exhaustion. While no session expires: the first allocate call returns
\* a code; a call that returns a code returns one that was not live and adds
\* exactly it; and a call made when every code of the key space is live (in
\* the 2-code scenario: the third call after two calls that returned codes)
\* fails with CapacityExhausted and inserts no session and arms no timer.
C6_Exhaustion ==
  now < TimerDelay =>
     /\ gen.n = 1 => gen.status = 200
     /\ gen.status = 200 => (gen.key \notin gen.live /\ DOMAIN keys = gen.live \cup {gen.key})
     /\ (gen.n >= 1 /\ gen.live = KeySpace) =>
           /\ gen.status = 503
           /\ DOMAIN keys = KeySpace
           /\ Cardinality(timers) = Cardinality(KeySpace)
           /\ Cardinality(DOMAIN infos) = Cardinality(KeySpace)

\* the call after the key space was filled has failed
C6_Witness ==
  /\ now < TimerDelay
  /\ gen.n = Cardinality(KeySpace) + 1
  /\ gen.live = KeySpace
  /\ gen.status = 503

\* C7: the retry budget. With n live sessions at the call, POST /generate
\* looks up at most n + 1 candidates; it returns the first candidate that is
\* not live and fails with 503 exactly when n + 1 candidates were looked up
\* and all were live.
C7_RetryBudget ==
  gen.n >= 1 =>
    LET n == Cardinality(gen.live)
        k == Len(gen.tested)
    IN  /\ gen.status \in {200, 503}
        /\ k <= n + 1
        /\ \A j \in 1..(k - 1) : gen.tested[j] \in gen.live
        /\ gen.status = 200 <=> (k >= 1 /\ gen.tested[k] \notin gen.live)
        /\ gen.status = 200 => gen.key = gen.tested[k]
        /\ gen.status = 503 <=> (k = n + 1 /\ \A j \in 1..k : gen.tested[j] \in gen.live)

\* a call that failed although a code was free, and one that succeeded on
\* its last candidate
C7_Witness ==
  /\ gen.status = 503
  /\ gen.live # KeySpace
  /\ Len(gen.tested) = Cardinality(gen.live) + 1

\* C8: randomKey returns exactly `length` characters, each one of the
\* alphabet, for every alphabet of 2..36 distinct characters (the radixes
\* toString accepts), every length and every draw.
C8_KeyShape ==
  kg.out # <<"none">> =>
    /\ Len(kg.out) = kg.len
    /\ \A i \in 1..Len(kg.out) : kg.out[i] \in Range(kg.chars)

\* a draw whose digits had to be padded
C8_Witness ==
  /\ kg.out # <<"none">>
  /\ kg.len >= 2
  /\ Len(kg.chars) >= 3
  /\ kg.rnd = 1

\* the blobs the live sessions reference
Referenced(key) ==
  IF impl = INDEX THEN infos[keys[key]].file.path ELSE infos[keys[key]].fileId

\* C9: with no upload in flight, every blob in the blob store is the file of
\* exactly one live session.
C9_NoRetainedBlob ==
  uploads = EmptyMap =>
    \A blob \in Blobs : Cardinality({key \in DOMAIN keys : Referenced(key) = blob}) = 1

\* the three checks the upload is to pass before anything is stored
Acceptable(file) ==
  /\ ToLowerCase(LastPart(file.name)) \in allowedExtensions
  /\ file.type \in allowedTypes
  /\ file.size <= maxFileSize

\* C10: an upload whose extension or declared media type is not allowed, or
\* that is larger than maxFileSize, is rejected by the validation: it is
\* never in flight past it and nothing of it is stored.
C10_Rejected ==
  /\ \A u \in DOMAIN uploads : uploads[u].pc # "reading" => Acceptable(uploads[u].file)
  /\ \A id \in DOMAIN files : files[id].type \in allowedTypes
  /\ \A key \in DOMAIN keys :
       impl = INDEX => infos[keys[key]].file.type \in allowedTypes \cup {""}

\* C11: under any interleaving of an upload with the expiration callback of
\* its code, an upload that reports success has assigned the file to a session
\* that is in the live map under that code at that moment, so a download
\* right after it finds the uploaded file; an upload whose session was
\* evicted between the key check and the assignment does not report success.
C11_BindVisible ==
  [][\A u \in 1..MaxUploads, code \in Codes :
       (Completes(u) /\ code = CodeOf(u) /\ resp' = UploadOk) =>
          /\ BindsLive(u)
          /\ ResolveNow(code)'.status = 200
          /\ ResolveNow(code)'.filename = uploads[u].file.name
          /\ ResolveNow(code)'.data = uploads[u].file.data]_vars

\* the upload handler of request u has started to delete the previous file
Deleting(u) == u \in DOMAIN uploads /\ uploads[u].pc \in {"removing", "removed"}

\* C12: the delete-old-then-assign-new sequence of an upload is atomic.  No
\* two uploads are deleting the same previous blob, and while an upload is
\* between the start of the deletion and its assignment no expiration
\* callback reads the file reference it is replacing.
C12_AtomicReplace ==
  /\ [](\A u1, u2 \in 1..MaxUploads :
          (Deleting(u1) /\ Deleting(u2) /\ uploads[u1].old = uploads[u2].old) => u1 = u2)
  /\ [][\A u \in 1..MaxUploads, t \in timers :
          (Deleting(u) /\ Fires(t) /\ t.key \in DOMAIN keys /\ keys[t.key] = t.info)
             => infos[t.info].file.path # uploads[u].old]_vars

\* the blob of the session under a code is in the blob store
BlobStored(key) ==
  IF impl = INDEX THEN infos[keys[key]].file.path \in DOMAIN disk
  ELSE infos[keys[key]].fileId \in DOMAIN files

\* C13: the expiration callback armed for a session changes the live map or
\* the blob store only if that session is the one stored under its code, and
\* it leaves every other session in the map, with its file reference and
\* its blob.
C13_CallbackIdentity ==
  [][\A t \in timers :
       Fires(t) =>
         /\ (keys' # keys \/ disk' # disk \/ files' # files)
               => (t.key \in DOMAIN keys /\ keys[t.key] = t.info)
         /\ \A key \in DOMAIN keys :
              keys[key] # t.info =>
                /\ key \in DOMAIN keys'
                /\ keys'[key] = keys[key]
                /\ infos'[keys[key]] = infos[keys[key]]
                /\ BlobStored(key) => BlobStored(key)']_vars

\* the code of an upload in flight has been allocated again: the upload holds
\* the earlier session, whose callback has run, and a later session is live
\* under the code with its blob
C13_Witness ==
  \E u \in DOMAIN uploads :
    /\ uploads[u].info # NoId
    /\ CodeOf(u) \in DOMAIN keys
    /\ keys[CodeOf(u)] # uploads[u].info
    /\ \A t \in timers : t.info # uploads[u].info

\* C14: fixed lifetime. Every live session has exactly one pending callback,
\* due at created + TTL; a pending callback leaves the timers only by running
\* when due, and one is armed only by the POST /generate call that creates
\* its session, for that call's time + TTL: no upload and no download arms,
\* cancels or postpones one.
C14_FixedLifetime ==
  /\ [](\A key \in DOMAIN keys :
          /\ Cardinality({t \in timers : t.info = keys[key]}) = 1
          /\ \A t \in timers :
               t.info = keys[key] =>
                 (t.key = key /\ t.due = infos[keys[key]].created + maxExpireDuration * 1000))
  /\ [][/\ \A t \in timers : t \in timers' \/ (now >= t.due /\ Fires(t))
        /\ \A t \in timers' \ timers :
             /\ gen'.n = gen.n + 1
             /\ gen'.status = 200
             /\ t = [key |-> gen'.key, info |-> gen'.n, due |-> now + maxExpireDuration * 1000]
        /\ (resp' # resp /\ resp'.op \in {"upload", "download"}) => timers' = timers]_vars

\* a file was bound and downloaded, and the session's callback is pending as
\* armed
C14_Witness ==
  /\ resp.op = "download"
  /\ resp.status = 200
  /\ resp.key \in DOMAIN keys
  /\ now >= TimerDelay
  /\ \E t \in timers : t.info = keys[resp.key] /\ t.due = now

\* C15: resolve is read-only. A step of a download handler, whether it
\* answers with the file or with an error, leaves the live map, the file
\* reference of every live session and the blob store as they were.
C15_ResolveReadOnly ==
  [][(download' # download \/ (resp' # resp /\ resp'.op = "download")) =>
        /\ keys' = keys
        /\ disk' = disk
        /\ files' = files
        /\ timers' = timers
        /\ \A key \in DOMAIN keys : infos'[keys[key]] = infos[keys[key]]]_vars

\* a download has returned the file of a session that is still live with its
\* blob
C15_Witness ==
  /\ resp.op = "download"
  /\ resp.status = 200
  /\ resp.key \in DOMAIN keys
  /\ BlobStored(resp.key)
  /\ uploads # EmptyMap

\* C16: when Deno.remove of the superseded file fails during an upload, the
\* error is logged and swallowed: the handler goes on to the assignment,
\* answers success, and a session still live references the new file.
C16_SwallowBind ==
  [][\A u \in 1..MaxUploads :
       /\ (/\ u \in DOMAIN uploads
           /\ uploads[u].pc = "removing"
           /\ uploads[u].old \notin DOMAIN disk
           /\ (u \notin DOMAIN uploads' \/ uploads'[u] # uploads[u]))
          => /\ u \in DOMAIN uploads'
             /\ uploads'[u].pc = "removed"
             /\ resp' = resp
             /\ ErrRemovingPrevious \in console'
       /\ (u \in DOMAIN uploads /\ uploads[u].pc = "removed" /\ Completes(u))
          => /\ resp' = UploadOk
             /\ BindsLive(u) => infos'[uploads[u].info].file = IndexFile(uploads[u])]_vars

\* a removal has failed and every upload has ended, the last with success,
\* the session live with a file on disk
C16_Witness ==
  /\ ErrRemovingPrevious \in console
  /\ uploads = EmptyMap
  /\ resp = UploadOk
  /\ \E key \in DOMAIN keys : infos[keys[key]].file.path \in DOMAIN disk

\* C17: when Deno.removeSync fails while the expiration callback evicts its
\* session, the error is logged, nothing propagates (no response is sent, no
\* handler is disturbed) and the session is out of the live map.
C17_SwallowExpiry ==
  [][\A t \in timers :
       (/\ Fires(t)
        /\ impl = INDEX
        /\ t.key \in DOMAIN keys
        /\ keys[t.key] = t.info
        /\ infos[t.info].file.path # NoPath
        /\ infos[t.info].file.path \notin DOMAIN disk)
       => /\ t.key \notin DOMAIN keys'
          /\ t.info \notin Range(keys')
          /\ ErrRemovingFile \in console'
          /\ resp' = resp
          /\ uploads' = uploads
          /\ download' = download]_vars

\* a callback has failed to remove its file and the session is gone
C17_Witness ==
  /\ ErrRemovingFile \in console
  /\ keys = EmptyMap
  /\ timers = {}

\* the number a code stands for: its characters' positions in the alphabet
\* as the digits of a number in base Len(chars)
RECURSIVE KeyValue(_, _)
KeyValue(chars, key) ==
  IF key = <<>> THEN 0
  ELSE KeyValue(chars, SubSeq(key, 1, Len(key) - 1)) * Len(chars)
         + (CHOOSE i \in 1..Len(chars) : chars[i] = key[Len(key)]) - 1

\* C18 as claimed: the configured alphabet has 31 symbols and randomKey can
\* return 923,521 distinct codes of length 4.
C18_AsClaimed ==
  (kg.chars = keyChars /\ kg.len = keyLength /\ kg.out # <<"none">>) =>
     /\ Len(kg.chars) = 31
     /\ Choices(kg.chars, kg.len) = 923521

\* C18: the configured alphabet has 30 distinct symbols and the length is 4;
\* randomKey draws from 30^4 = 810,000 numbers, and the code it returns for
\* a draw stands for that draw, so distinct draws give distinct codes: the
\* key space has exactly 810,000 elements.
C18_KeySpace ==
  /\ Len(keyChars) = 30
  /\ Cardinality(Range(keyChars)) = 30
  /\ keyLength = 4
  /\ Choices(keyChars, keyLength) = 810000
  /\ kg.out # <<"none">> =>
       /\ kg.rnd \in 0..(Choices(kg.chars, kg.len) - 1)
       /\ Len(kg.out) = kg.len
       /\ KeyValue(kg.chars, kg.out) = kg.rnd

\* the last draw of the configured key space gives the last code
C18_Witness ==
  /\ kg.chars = keyChars
  /\ kg.len = keyLength
  /\ kg.rnd = 809999
  /\ kg.out = <<"Z", "Z", "Z", "Z">>

\* C19: referential integrity. In every state, the states between the steps
\* of an upload in flight included, every live session with a file reference
\* references a blob in the blob store, so that a download which passes the
\* key and file checks finds the blob.
C19_ReferentialIntegrity ==
  \A key \in DOMAIN keys :
    ~Unbound(key) => (BlobStored(key) /\ ResolveNow(key).status = 200)

\* C20: no inheritance across the reuse of a code. A session starts unbound,
\* and an upload that arrived while its code named an earlier session sets
\* the file reference of that session only, never of a session allocated
\* the code later.
C20_NoInheritance ==
  [][/\ \A key \in KeySpace :
          (gen'.n = gen.n + 1 /\ gen'.status = 200 /\ gen'.key = key) => Unbound(key)'
     /\ \A u \in 1..MaxUploads :
          (Completes(u) /\ resp' = UploadOk /\ uploads[u].target # NoId)
             => SessionOf(u) = uploads[u].target]_vars

====
